---- MODULE Spec2Model ----
(***************************************************************************)
(* CVEDA: the feature orchestrator (cveda/api.py, CVEDA.run_audit) and the *)
(* canonical index loader (cveda/data_io.py, ImageCollectionLoader).       *)
(*                                                                         *)
(* Python values are encoded so that every comparison is type-correct:     *)
(*   Optional[T]     a sequence of length 0 (None) or 1                    *)
(*   an ordered dict a sequence of <<key, value>> pairs, keys unique       *)
(*   a feature result / cache payload: a record built by Dict or NoneV     *)
(*   sha256(s)       the string s itself (the digest is taken injective)   *)
(***************************************************************************)
EXTENDS Integers, Sequences, FiniteSets, TLC

VARIABLES
    runnerOf,       \* feature module -> what its runner does when called
    cache,          \* files of the cache directory: file name -> payload
    runs,           \* run_audit calls started so far
    pc,             \* position of the current run_audit call
    cfg,            \* its config argument
    index,          \* its local index
    result,         \* its result OrderedDict, as built so far
    features_out,   \* its features_out dict
    feature_items,  \* its feature_items list (names)
    index_fp,       \* its index_fp
    pos,            \* loop position of the submit loop / sequential loop
    futures,        \* future_to_meta and the futures' states
    queue,          \* the pool's call queue (submitted, not yet picked up)
    exc,            \* the exception that left run_audit (Optional)
    executed,       \* features whose runner was called in the current call
    calls,          \* runner calls made so far, counted per cache key
    root,           \* loader: what self.root is on disk
    tree,           \* loader: the files under root
    recursive,      \* loader: self.recursive
    lpc,            \* loader: position of build_index
    files,          \* loader: result of _list_image_files
    lindex,         \* loader: the index dict being built
    lpos,           \* loader: loop position over files
    built,          \* loader: fingerprints of the indexes returned so far
    prev,           \* what the previous run_audit call returned and left (Optional)
    img_path,       \* canonicalization: the image, as a path relative to root
    size,           \* canonicalization: (width, height) of the image
    cpc,            \* canonicalization: position in the work on one image
    candidates,     \* canonicalization: result of _find_annotation_candidates
    cpos,           \* canonicalization: loop position over candidates
    record,         \* canonicalization: the record being built
    errors,         \* canonicalization: the local list `errors`
    found           \* canonicalization: what the core checks report

avars == <<runnerOf, cache, runs, pc, cfg, index, result, features_out,
           feature_items, index_fp, pos, futures, queue, exc, executed, calls>>
lvars == <<root, tree, recursive, lpc, files, lindex, lpos, built>>
cvars == <<img_path, size, cpc, candidates, cpos, record, errors, found>>
vars == <<avars, lvars, cvars, prev>>

(***************************************************************************)
(* Bounds of the model.                                                    *)
(***************************************************************************)
\* successive run_audit calls that share one cache directory
MaxRuns == 2
\* the sample size of _index_fingerprint (1000 in the code), scaled down so
\* that an index can be longer than the sample
max_items == 2
\* successive build_index calls of one loader
MaxBuilds == 2

(***************************************************************************)
(* Generic helpers for the encodings above.                                *)
(***************************************************************************)
Min(a, b) == IF a <= b THEN a ELSE b
Range(s) == {s[i] : i \in 1..Len(s)}
Keys(d) == {d[i][1] : i \in 1..Len(d)}
Lookup(d, k) == (CHOOSE i \in 1..Len(d) : d[i][1] = k)
\* d[k] = v of an insertion-ordered dict
DictSet(d, k, v) ==
    IF k \in Keys(d) THEN [d EXCEPT ![Lookup(d, k)] = <<k, v>>]
    ELSE Append(d, <<k, v>>)
DictGet(d, k) == d[Lookup(d, k)][2]
Put(f, k, v) == (k :> v) @@ f
Count(f, k) == IF k \in DOMAIN f THEN f[k] ELSE 0

(***************************************************************************)
(* Values.                                                                 *)
(***************************************************************************)
None == <<>>
Some(x) == <<x>>

\* what a feature's runner returns, what a worker returns, what is cached
NoneV == [kind |-> "None", status |-> "", detail |-> "", feature |-> "",
          input |-> <<>>, np |-> FALSE]
Dict(status, detail, feature, input, np) ==
    [kind |-> "dict", status |-> status, detail |-> detail,
     feature |-> feature, input |-> input, np |-> np]

\* a feature config: None, or a dict given by its set of items
CfgNone == [kind |-> "None", items |-> {}]
CfgDict(items) == [kind |-> "dict", items |-> items]
EmptyCfg == CfgDict({})
\* Python truthiness of a feature config (`feat_cfg or {}`)
Truthy(c) == c.kind = "dict" /\ c.items # {}
OrEmpty(c) == IF Truthy(c) THEN c ELSE EmptyCfg

\* the registry CVEDA.__init__ fills, in registration order
Registered == <<"f1", "f2">>
Names == Range(Registered)

\* a canonical record, and sample indexes a loader may return
Rec(name, w, anns) ==
    [file_name |-> <<name>>, abs_path |-> <<"data", name>>,
     width |-> Some(w), height |-> Some(64),
     annotations |-> anns, meta |-> <<>>]
Entry(name, w, anns) == <<(<<name>>), Rec(name, w, anns)>>
IndexBase == <<Entry("a.jpg", 64, <<>>), Entry("b.jpg", 64, <<>>),
               Entry("c.jpg", 64, <<>>)>>
\* IndexBase with one more annotation on its first record
IndexAnn == [IndexBase EXCEPT ![1] = Entry("a.jpg", 64, <<"box">>)]
\* IndexBase with another width of its first record
IndexWidth == [IndexBase EXCEPT ![1] = Entry("a.jpg", 32, <<>>)]
\* IndexBase with another width of its last record
IndexTail == [IndexBase EXCEPT ![3] = Entry("c.jpg", 32, <<>>)]
EmptyIndex == <<>>

(***************************************************************************)
(* api.py: fingerprint, cache, sanitizer, worker.                          *)
(***************************************************************************)
\* _index_fingerprint: the first max_items entries in dict order, each
\* projected to keep_keys; json.dumps and sha256 are taken injective.
\* a fingerprint that leaves the width out
SmallNoWidth(rec) == [file_name |-> rec.file_name, abs_path |-> rec.abs_path,
                      width |-> None, height |-> rec.height]
Small(rec) == [file_name |-> rec.file_name, abs_path |-> rec.abs_path,
               width |-> rec.width, height |-> rec.height]
_index_fingerprint(idx) ==
    [i \in 1..Min(Len(idx), max_items) |-> <<idx[i][1], Small(idx[i][2])>>]

\* json.dumps(feat_cfg or {}, sort_keys=True, default=str)
cfg_ser(feat_cfg) == OrEmpty(feat_cfg).items

\* sha256(f"{feat_name}:{index_fp}:{cfg_ser}")
cache_key(feat_name, fp, ser) == <<feat_name, fp, ser>>
\* f"{feat_name}_{cache_key}" (+ ".pkl" in _cache_load/_cache_save)
CacheFile(feat_name, key) == <<feat_name, key>>

\* os.stat of a path inside cache_dir raises OSError (ENAMETOOLONG, EACCES)
StatRaises(cache_dir) == cache_dir = "unstatable"

\* mkdir or open(path, "wb") in cache_dir raises (the stat failures, and a
\* directory that lies below a regular file or may not be written)
SaveFails(cache_dir) == cache_dir \in {"unstatable", "unwritable"}

\* _cache_load: None when the file is missing, unreadable or not a pickle
\* (`cache` holds the files that load), else the unpickled payload.
\* path.exists() is outside the try: its OSError is the caller's.
_cache_load(cache_dir, file) ==
    IF file \in DOMAIN cache THEN Some(cache[file]) ELSE None
\* `cached is not None`: a payload that is itself None reads as a miss
IsHit(loaded) == loaded # None /\ loaded[1].kind # "None"

\* _cache_save: every failure is swallowed
_cache_save(cache_dir, file, payload) ==
    IF SaveFails(cache_dir) THEN cache ELSE Put(cache, file, payload)

\* _sanitize_for_json: numpy values become plain Python values
_sanitize_for_json(out) == IF out.kind = "dict" THEN [out EXCEPT !.np = FALSE] ELSE out

\* The runner of feature `name` called with (idx, c), for the runners that
\* return: a result that depends on all of its input, or None.  A runner
\* may also write to the index it is handed before it returns ("mutate").
Behaviours == {"ok", "none", "raise", "hang", "norunner", "mutate"}
Returns(b) == b \in {"ok", "none", "mutate"}
\* what a mutating runner does to the dict it received: it appends to the
\* annotations of the first record
Mutate(idx) ==
    IF idx = <<>> THEN idx
    ELSE [idx EXCEPT ![1] = <<idx[1][1],
                              [idx[1][2] EXCEPT !.annotations = Append(@, "added")]>>]
RunnerOut(name, idx, c) ==
    IF runnerOf[name] = "none" THEN NoneV
    ELSE Dict("ok", "", name, <<idx, c>>, TRUE)

\* _feature_worker: runner(index, cfg_slice or {}), sanitized; an error dict
\* when the runner raises; a no-runner dict when the module has none.
_feature_worker(name, idx, cfg_slice) ==
    CASE runnerOf[name] = "norunner" -> Dict("no-runner", "worker note", "", <<>>, FALSE)
      [] runnerOf[name] = "raise" -> Dict("error", "str(e)", "", <<>>, FALSE)
      [] OTHER -> _sanitize_for_json(RunnerOut(name, idx, OrEmpty(cfg_slice)))

TimeoutResult == Dict("error", "timeout", "", <<>>, FALSE)
ExecFailed == Dict("error", "execution failed", "", <<>>, FALSE)
SeqFailed == Dict("error", "feature execution failed", "", <<>>, FALSE)
SeqNoRunner == Dict("no-runner", "sequential note", "", <<>>, FALSE)

(***************************************************************************)
(* api.py: CVEDA.run_audit, one action per step of the method.             *)
(***************************************************************************)
CheckNames == {"completeness", "bbox_sanity"}
DistNames == {"class_distribution", "bbox_statistics", "spatial_heatmaps"}
ResultKeys == {"index", "checks", "distributions", "splits", "features", "report_path"}

\* a pool with one worker more than asked for
WorkersPlusOne == cfg.max_workers + 1
\* config values read by run_audit
use_parallel == cfg.features_parallel
max_workers == IF cfg.max_workers >= 1 THEN cfg.max_workers ELSE 1
cache_enabled == cfg.feature_cache
cache_dir == cfg.cache_dir
\* features_cfg.get(name, {})
FeatCfg(name) == IF name \in DOMAIN cfg.features THEN cfg.features[name] ELSE EmptyCfg

\* feature_items: every registered feature, or, `if requested_features:`,
\* the requested names that are registered, in the order requested
Requested(req) == SelectSeq(req.names, LAMBDA n : n \in Names)
FeatureItems(req) ==
    IF req.given /\ req.names # <<>> THEN Requested(req) ELSE Registered

\* the call run_audit(out_pdf, config) begins: its locals
Begin(c) ==
    /\ pc \in {"idle", "returned", "raised"}
    /\ runs < MaxRuns
    /\ runs' = runs + 1
    /\ cfg' = c
    /\ pc' = "index"
    /\ index' = EmptyIndex
    /\ result' = <<>>
    /\ features_out' = <<>>
    /\ feature_items' = <<>>
    /\ index_fp' = <<>>
    /\ pos' = 1
    /\ futures' = <<>>
    /\ queue' = <<>>
    /\ exc' = None
    /\ executed' = {}
    /\ UNCHANGED <<runnerOf, cache, calls>>
    /\ UNCHANGED <<lvars, cvars>>
StartRun(c) ==
    /\ Begin(c)
    /\ UNCHANGED prev
\* the caller keeps what the call before returned and left in the cache
\* directory, and calls run_audit again
StartAgain(c) ==
    /\ pc = "returned"
    /\ prev' = Some([cfg |-> cfg, index |-> result["index"],
                     features |-> result["features"], cache |-> cache])
    /\ Begin(c)

\* 1) index = self.loader.build_index(); its exception is re-raised
BuildIndex(raises, idx) ==
    /\ pc = "index"
    /\ IF raises
       THEN /\ exc' = Some("build_index")
            /\ pc' = "raised"
            /\ UNCHANGED <<index, result>>
       ELSE /\ index' = idx
            /\ result' = Put(result, "index", idx)
            /\ pc' = "core"
            /\ exc' = exc
    /\ UNCHANGED <<runnerOf, cache, runs, cfg, features_out, feature_items,
                   index_fp, pos, futures, queue, executed, calls>>
    /\ UNCHANGED <<lvars, cvars, prev>>

\* 2) the two core checks and the three distributions, each in its own try
Protected(name, raising) ==
    IF name \in raising THEN [status |-> "error"] ELSE [status |-> "ok"]
CoreChecks(raising) ==
    /\ pc = "core"
    /\ result' = Put(Put(result, "checks", [n \in CheckNames |-> Protected(n, raising)]),
                     "distributions", [n \in DistNames |-> Protected(n, raising)])
    /\ pc' = "splits"
    /\ UNCHANGED <<runnerOf, cache, runs, cfg, index, features_out, feature_items,
                   index_fp, pos, futures, queue, exc, executed, calls>>
    /\ UNCHANGED <<lvars, cvars, prev>>

\* 3) discover_splits(self.loader.root) and the per split indexes, in a try
Splits(outcome) ==
    /\ pc = "splits"
    /\ result' = Put(result, "splits",
                     CASE outcome = "found" -> [status |-> "", found |-> TRUE]
                       [] outcome = "none" -> [status |-> "", found |-> FALSE]
                       [] OTHER -> [status |-> "error", found |-> FALSE])
    /\ pc' = "features"
    /\ UNCHANGED <<runnerOf, cache, runs, cfg, index, features_out, feature_items,
                   index_fp, pos, futures, queue, exc, executed, calls>>
    /\ UNCHANGED <<lvars, cvars, prev>>

\* 4) feature_items, index_fp and the choice of the branch
FeatureSetup ==
    /\ pc = "features"
    /\ feature_items' = FeatureItems(cfg.features_to_run)
    /\ index_fp' = _index_fingerprint(index)
    /\ features_out' = <<>>
    /\ pos' = 1
    /\ pc' = IF use_parallel /\ feature_items' # <<>> THEN "submit" ELSE "seq"
    /\ UNCHANGED <<runnerOf, cache, runs, cfg, index, result, futures, queue,
                   exc, executed, calls>>
    /\ UNCHANGED <<lvars, cvars, prev>>

\* the key of feature `name` in this call
KeyOf(name) == cache_key(name, index_fp, cfg_ser(FeatCfg(name)))

\* parallel branch, one turn of the submit loop
Submit ==
    /\ pc = "submit"
    /\ pos <= Len(feature_items)
    /\ LET name == feature_items[pos]
           key == IF cache_enabled THEN KeyOf(name) ELSE None
           loaded == _cache_load(cache_dir, CacheFile(name, key))
           more == IF pos < Len(feature_items) THEN "submit" ELSE "collect"
       IN  IF cache_enabled /\ StatRaises(cache_dir)
           THEN /\ exc' = Some("OSError")
                /\ pc' = "raised"
                /\ UNCHANGED <<features_out, futures, queue, pos>>
           ELSE IF cache_enabled /\ IsHit(loaded)
           THEN /\ features_out' = Put(features_out, name, loaded[1])
                /\ pos' = pos + 1
                /\ pc' = more
                /\ UNCHANGED <<futures, queue, exc>>
           ELSE /\ futures' = Put(futures, name,
                        [state |-> "pending", key |-> key, res |-> NoneV])
                /\ queue' = Append(queue, name)
                /\ pos' = pos + 1
                /\ pc' = more
                /\ UNCHANGED <<features_out, exc>>
    /\ UNCHANGED <<runnerOf, cache, runs, cfg, index, result, feature_items,
                   index_fp, executed, calls>>
    /\ UNCHANGED <<lvars, cvars, prev>>

\* a pool worker takes the next queued call: _feature_worker starts
Running == {f \in DOMAIN futures : futures[f].state = "running"}
WorkerStart ==
    /\ pc \in {"submit", "collect"}
    /\ queue # <<>>
    /\ Cardinality(Running) < max_workers
    /\ LET name == Head(queue)
       IN  /\ futures' = [futures EXCEPT ![name].state = "running"]
           /\ queue' = Tail(queue)
           /\ IF runnerOf[name] # "norunner"
              THEN /\ executed' = executed \cup {name}
                   /\ calls' = Put(calls, KeyOf(name), Count(calls, KeyOf(name)) + 1)
              ELSE UNCHANGED <<executed, calls>>
    /\ UNCHANGED <<runnerOf, cache, runs, pc, cfg, index, result, features_out,
                   feature_items, index_fp, pos, exc>>
    /\ UNCHANGED <<lvars, cvars, prev>>

\* _feature_worker returns (a runner that hangs never does)
WorkerFinish(name) ==
    /\ name \in Running
    /\ runnerOf[name] # "hang"
    /\ futures' = [futures EXCEPT ![name].state = "done",
                                  ![name].res = _feature_worker(name, index, FeatCfg(name))]
    /\ UNCHANGED <<runnerOf, cache, runs, pc, cfg, index, result, features_out,
                   feature_items, index_fp, pos, queue, exc, executed, calls>>
    /\ UNCHANGED <<lvars, cvars, prev>>

\* as_completed(...) yields the futures that are done, in any order
as_completed == {f \in DOMAIN futures : futures[f].state = "done"}
\* a loop that takes the result of any finished task for the name at hand
AnyResult(name) == futures[CHOOSE f \in as_completed : TRUE].res
\* fut.result(timeout=feature_timeout)
FutResult(name) ==
    CASE futures[name].state = "done" -> futures[name].res
      [] futures[name].state = "failed" -> ExecFailed
      [] OTHER -> TimeoutResult
\* the save after a result is stored
SaveAfterCollect(name, key, res) ==
    IF cache_enabled /\ key # None
    THEN _cache_save(cache_dir, CacheFile(name, key), res)
    ELSE cache

\* parallel branch, one turn of the collect loop
Collect(name) ==
    /\ pc = "collect"
    /\ name \in as_completed
    /\ LET res == FutResult(name)
       IN  /\ features_out' = Put(features_out, name, res)
           /\ cache' = SaveAfterCollect(name, futures[name].key, res)
    /\ futures' = [futures EXCEPT ![name].state = "collected"]
    /\ UNCHANGED <<runnerOf, runs, pc, cfg, index, result, feature_items,
                   index_fp, pos, queue, exc, executed, calls>>
    /\ UNCHANGED <<lvars, cvars, prev>>

\* every future was yielded; the pool shuts down; result["features"] is set
CollectDone ==
    /\ pc = "collect"
    /\ \A f \in DOMAIN futures : futures[f].state = "collected"
    /\ result' = Put(result, "features", features_out)
    /\ pc' = "summary"
    /\ UNCHANGED <<runnerOf, cache, runs, cfg, index, features_out, feature_items,
                   index_fp, pos, futures, queue, exc, executed, calls>>
    /\ UNCHANGED <<lvars, cvars, prev>>

\* runner(index, feat_cfg) is handed the orchestrator's own dict, which
\* result["index"] refers to as well: what that dict holds after the turn
RunnerLeaves(name, idx) ==
    IF /\ runnerOf[name] = "mutate"
       /\ ~(cache_enabled /\ StatRaises(cache_dir))
       /\ ~(cache_enabled /\ IsHit(_cache_load(cache_dir, CacheFile(name, KeyOf(name)))))
    THEN Mutate(idx) ELSE idx

\* an except branch that stores nothing
SeqExceptionLost(name) == features_out
\* sequential branch, one turn of the loop; its body is one try block
SeqException(name) == Put(features_out, name, SeqFailed)
SeqStep ==
    /\ pc = "seq"
    /\ pos <= Len(feature_items)
    /\ LET name == feature_items[pos]
           feat_cfg == FeatCfg(name)
           key == IF cache_enabled THEN KeyOf(name) ELSE None
           loaded == _cache_load(cache_dir, CacheFile(name, key))
           out == _sanitize_for_json(RunnerOut(name, index, feat_cfg))
           called == /\ executed' = executed \cup {name}
                     /\ calls' = Put(calls, KeyOf(name), Count(calls, KeyOf(name)) + 1)
       IN  IF cache_enabled /\ StatRaises(cache_dir)
           THEN /\ features_out' = SeqException(name)
                /\ pos' = pos + 1
                /\ UNCHANGED <<pc, cache, executed, calls>>
           ELSE IF cache_enabled /\ IsHit(loaded)
           THEN /\ features_out' = Put(features_out, name, loaded[1])
                /\ pos' = pos + 1
                /\ UNCHANGED <<pc, cache, executed, calls>>
           ELSE IF runnerOf[name] = "norunner"
           THEN /\ features_out' = Put(features_out, name, SeqNoRunner)
                /\ pos' = pos + 1
                /\ UNCHANGED <<pc, cache, executed, calls>>
           ELSE IF runnerOf[name] = "hang"
           THEN /\ pc' = "blocked"
                /\ called
                /\ UNCHANGED <<features_out, pos, cache>>
           ELSE IF runnerOf[name] = "raise"
           THEN /\ features_out' = SeqException(name)
                /\ pos' = pos + 1
                /\ called
                /\ UNCHANGED <<pc, cache>>
           ELSE /\ features_out' = Put(features_out, name, out)
                /\ cache' = SaveAfterCollect(name, key, out)
                /\ pos' = pos + 1
                /\ called
                /\ pc' = pc
    /\ index' = RunnerLeaves(feature_items[pos], index)
    /\ result' = Put(result, "index", index')
    /\ UNCHANGED <<runnerOf, runs, cfg, feature_items, index_fp,
                   futures, queue, exc>>
    /\ UNCHANGED <<lvars, cvars, prev>>

\* the loop is over; result["features"] is set
SeqDone ==
    /\ pc = "seq"
    /\ pos > Len(feature_items)
    /\ result' = Put(result, "features", features_out)
    /\ pc' = "summary"
    /\ UNCHANGED <<runnerOf, cache, runs, cfg, index, features_out, feature_items,
                   index_fp, pos, futures, queue, exc, executed, calls>>
    /\ UNCHANGED <<lvars, cvars, prev>>

\* 5) result["checks"].setdefault("summary", ...)
Summary ==
    /\ pc = "summary"
    /\ result' = [result EXCEPT !["checks"] =
                    Put(@, "summary", [status |-> IF Len(index) > 0 THEN "100" ELSE "0"])]
    /\ pc' = "pdf"
    /\ UNCHANGED <<runnerOf, cache, runs, cfg, index, features_out, feature_items,
                   index_fp, pos, futures, queue, exc, executed, calls>>
    /\ UNCHANGED <<lvars, cvars, prev>>

\* 6) the optional PDF, in a try; result["report_path"]; return result
Pdf(out_pdf, raises) ==
    /\ pc = "pdf"
    /\ result' = Put(result, "report_path",
                     IF out_pdf /\ ~raises THEN Some("report.pdf") ELSE None)
    /\ pc' = "returned"
    /\ UNCHANGED <<runnerOf, cache, runs, cfg, index, features_out, feature_items,
                   index_fp, pos, futures, queue, exc, executed, calls>>
    /\ UNCHANGED <<lvars, cvars, prev>>

(***************************************************************************)
(* Inputs of the audit.                                                    *)
(***************************************************************************)
CfgA == CfgDict({<<"a", 1>>})
NotGiven == [given |-> FALSE, names |-> <<>>]
Given(names) == [given |-> TRUE, names |-> names]
ToRun == {NotGiven, Given(<<>>), Given(<<"f1">>), Given(<<"f2", "zz">>)}
FeatureCfgs == {<<>>, "f1" :> CfgNone, "f1" :> CfgA}
AllConfigs ==
    [features_parallel : BOOLEAN, max_workers : {1, 2}, feature_cache : BOOLEAN,
     cache_dir : {"cache", "unstatable", "unwritable"}, features_to_run : ToRun,
     features : FeatureCfgs]
\* one call, any configuration (a setting that is not read is kept at one value)
Configs ==
    {c \in AllConfigs :
        /\ ~c.features_parallel => c.max_workers = 2
        /\ ~c.feature_cache => c.cache_dir = "cache"
        /\ c.features # <<>> => c.features_to_run = NotGiven}
\* calls that share a usable cache directory
CacheConfigs ==
    {c \in AllConfigs :
        /\ c.max_workers = 2
        /\ c.feature_cache
        /\ c.cache_dir = "cache"
        /\ c.features_to_run \in {NotGiven, Given(<<"f1">>)}}

Idle ==
    /\ cache = <<>>
    /\ runs = 0
    /\ pc = "idle"
    /\ cfg = CHOOSE c \in Configs : TRUE
    /\ index = EmptyIndex
    /\ result = <<>>
    /\ features_out = <<>>
    /\ feature_items = <<>>
    /\ index_fp = <<>>
    /\ pos = 1
    /\ futures = <<>>
    /\ queue = <<>>
    /\ exc = None
    /\ executed = {}
    /\ calls = <<>>
    /\ prev = None

LoaderIdle ==
    /\ root = "dir"
    /\ tree = {}
    /\ recursive = TRUE
    /\ lpc = "idle"
    /\ files = <<>>
    /\ lindex = <<>>
    /\ lpos = 1
    /\ built = <<>>

\* the completeness report before the audit has run
NoAudit == [images_without_annotations |-> {}, parse_failures |-> {}, n_images |-> 0]
CanonIdle ==
    /\ img_path = <<>>
    /\ size = <<None, None>>
    /\ cpc = "idle"
    /\ candidates = <<>>
    /\ cpos = 1
    /\ record = [annotations |-> <<>>, meta |-> <<>>]
    /\ errors = <<>>
    /\ found = [zero |-> {}, inverted |-> {}, completeness |-> NoAudit]

\* one run_audit call in any environment
Init ==
    /\ runnerOf \in [Names -> Behaviours]
    /\ Idle
    /\ LoaderIdle
    /\ CanonIdle

Next ==
    \/ /\ runs = 0
       /\ \E c \in Configs : StartRun(c)
    \/ \E raises \in BOOLEAN : BuildIndex(raises, IndexBase)
    \/ \E raising \in {{}, {"completeness"}, CheckNames \cup DistNames} : CoreChecks(raising)
    \/ \E outcome \in {"none", "found", "raise"} : Splits(outcome)
    \/ FeatureSetup
    \/ Submit
    \/ WorkerStart
    \/ \E f \in Names : WorkerFinish(f)
    \/ \E f \in Names : Collect(f)
    \/ CollectDone
    \/ SeqStep
    \/ SeqDone
    \/ Summary
    \/ \E out_pdf \in BOOLEAN, raises \in BOOLEAN : Pdf(out_pdf, raises)

Spec == Init /\ [][Next]_vars

\* successive calls that share a usable cache directory; the loader returns
\* an index, the core steps succeed, no PDF is asked for
SampleIndexes == {IndexBase, IndexAnn, IndexWidth, IndexTail}
NextRuns ==
    \/ \E c \in CacheConfigs : StartRun(c)
    \/ \E idx \in SampleIndexes : BuildIndex(FALSE, idx)
    \/ CoreChecks({})
    \/ Splits("none")
    \/ FeatureSetup
    \/ Submit
    \/ WorkerStart
    \/ \E f \in Names : WorkerFinish(f)
    \/ \E f \in Names : Collect(f)
    \/ CollectDone
    \/ SeqStep
    \/ SeqDone
    \/ Summary
    \/ Pdf(FALSE, FALSE)

SpecRuns == Init /\ [][NextRuns]_vars

\* the same call made twice on one index, in the same or in the other mode,
\* with runners that return or raise at once
ModeConfigs ==
    {c \in AllConfigs :
        /\ ~c.features_parallel => c.max_workers = 2
        /\ c.cache_dir = "cache"
        /\ c.features_to_run \in {NotGiven, Given(<<"f1">>)}}
InitModes ==
    /\ runnerOf \in [Names -> {"ok", "none", "raise", "norunner"}]
    /\ Idle
    /\ LoaderIdle
    /\ CanonIdle
NextModes ==
    \/ /\ runs = 0
       /\ \E c \in ModeConfigs : StartRun(c)
    \/ \E par \in BOOLEAN : StartAgain([cfg EXCEPT !.features_parallel = par])
    \/ BuildIndex(FALSE, IndexBase)
    \/ CoreChecks({})
    \/ Splits("none")
    \/ FeatureSetup
    \/ Submit
    \/ WorkerStart
    \/ \E f \in Names : WorkerFinish(f)
    \/ \E f \in Names : Collect(f)
    \/ CollectDone
    \/ SeqStep
    \/ SeqDone
    \/ Summary
    \/ Pdf(FALSE, FALSE)

SpecModes == InitModes /\ [][NextModes]_vars

(***************************************************************************)
(* data_io.py: ImageCollectionLoader.  A path is the sequence of its       *)
(* parts; `tree` holds the files under root, each relative to root, and a  *)
(* directory exists when a file lies below it.                             *)
(***************************************************************************)
IMAGE_EXTS == {".jpg", ".jpeg", ".png", ".bmp", ".tif", ".tiff"}
COMMON_IMAGE_DIRS == {"images", "image", "imgs", "img", "JPEGImages", "Images"}

\* self.root as a path
RootPath == <<"data">>

\* the files a tree may hold
PathUniverse ==
    {<<"a.jpg">>, <<"long.jpg">>, <<"notes.txt">>, <<"sub", "a.jpg">>,
     <<"images", "a.jpg">>, <<"images", "long.jpg">>, <<"images", "sub", "a.jpg">>,
     <<"Images", "b.png">>, <<"train", "images", "c.JPG">>}

\* p.suffix.lower()
SuffixLower(name) ==
    CASE name \in {"a.jpg", "long.jpg", "c.JPG"} -> ".jpg"
      [] name = "b.png" -> ".png"
      [] name \in {"notes.txt", "a.txt", "b.txt"} -> ".txt"
      [] name = "a.xml" -> ".xml"
      [] name \in {"a.json", "annotations.json", "instances.json", "coco.json"} -> ".json"
      [] OTHER -> ""
\* the order of str on the names in use
NameRank(name) ==
    CASE name = "Images" -> 1
      [] name = "a.jpg" -> 2
      [] name = "b.png" -> 3
      [] name = "c.JPG" -> 4
      [] name = "data" -> 5
      [] name = "images" -> 6
      [] name = "long.jpg" -> 7
      [] name = "notes.txt" -> 8
      [] name = "sub" -> 9
      [] OTHER -> 10
\* Path.__lt__: the parts compared as lists
RECURSIVE PathLess(_, _)
PathLess(p, q) ==
    IF p = <<>> THEN q # <<>>
    ELSE IF q = <<>> THEN FALSE
    ELSE IF Head(p) # Head(q) THEN NameRank(Head(p)) < NameRank(Head(q))
    ELSE PathLess(Tail(p), Tail(q))
\* sorted(files)
RECURSIVE Insert(_, _)
Insert(s, p) ==
    IF s = <<>> THEN <<p>>
    ELSE IF PathLess(p, Head(s)) THEN <<p>> \o s
    ELSE <<Head(s)>> \o Insert(Tail(s), p)
RECURSIVE sorted(_)
sorted(s) == IF s = <<>> THEN <<>> ELSE Insert(sorted(Tail(s)), Head(s))

IsPrefix(d, p) == Len(d) <= Len(p) /\ SubSeq(p, 1, Len(d)) = d
\* p.is_dir(), p.is_file() for a path relative to root
IsDir(d) == \E p \in tree : Len(d) < Len(p) /\ IsPrefix(d, p)
IsFile(p) == p \in tree
\* d.iterdir()
IterDir(d) == {SubSeq(p, 1, Len(d) + 1) : p \in {q \in tree : Len(d) < Len(q) /\ IsPrefix(d, q)}}
\* d.rglob("*")
RGlob(d) == {p \in tree : Len(d) < Len(p) /\ IsPrefix(d, p)}
\* the image files of directory d
ImagesIn(d) ==
    {p \in (IF recursive THEN RGlob(d) ELSE IterDir(d)) :
        IsFile(p) /\ SuffixLower(p[Len(p)]) \in IMAGE_EXTS}

\* _list_image_files(base=self.root) before the sort: the candidate
\* directories under base, else one level deeper, else base itself
CandidateDirs ==
    LET first == {<<d>> : d \in {n \in COMMON_IMAGE_DIRS : IsDir(<<n>>)}}
        deeper == {c \o <<d>> : c \in {x \in IterDir(<<>>) : IsDir(x)},
                                d \in COMMON_IMAGE_DIRS}
    IN  IF first # {} THEN first ELSE {d \in deeper : IsDir(d)}
Found ==
    IF CandidateDirs # {} THEN UNION {ImagesIn(d) : d \in CandidateDirs}
    ELSE ImagesIn(<<>>)
\* the orders in which the directory scans may yield a set of paths
Orders(S) == {s \in [1..Cardinality(S) -> S] : Range(s) = S}
\* the enumeration returned as the scans yielded it
_list_image_files_unsorted(order) == [i \in 1..Len(order) |-> RootPath \o order[i]]
\* the Path objects of an enumeration, sorted
_list_image_files(order) == sorted([i \in 1..Len(order) |-> RootPath \o order[i]])

\* the file's name alone instead of its path relative to root
RelPosixNameOnly(img) == <<img[Len(img)]>>
\* img.relative_to(self.root).as_posix()
RelPosix(img) == SubSeq(img, Len(RootPath) + 1, Len(img))
\* get_image_size_safe: (None, None) for a file PIL cannot read
get_image_size_safe(img) ==
    IF img[Len(img)] = "b.png" THEN <<None, None>> ELSE <<Some(64), Some(64)>>
\* the try body of build_index raises for this image: a probe of a sidecar
\* whose name is too long for the file system raises OSError
BuildRaises(img) == img[Len(img)] = "long.jpg"

\* _canonicalize_annotations_for_image, for an image without annotations
_canonicalize_annotations_for_image(img) ==
    [file_name |-> RelPosix(img), abs_path |-> img,
     width |-> get_image_size_safe(img)[1], height |-> get_image_size_safe(img)[2],
     annotations |-> <<>>, meta |-> <<>>]
\* the stub of build_index's except branch
Stub(img) ==
    [file_name |-> RelPosix(img), abs_path |-> img, width |-> None, height |-> None,
     annotations |-> <<>>, meta |-> <<(<<"error", "str(e)">>)>>]

\* ImageCollectionLoader(root): FileNotFoundError when root does not exist
Construct ==
    /\ lpc = "new"
    /\ lpc' = IF root = "missing" THEN "FileNotFoundError" ELSE "ready"
    /\ UNCHANGED <<root, tree, recursive, files, lindex, lpos, built>>
    /\ UNCHANGED <<avars, cvars, prev>>

\* build_index begins: files = self._list_image_files(base=self.root).
\* With no candidate directory under base, base.iterdir() is called, and it
\* raises NotADirectoryError when root is a regular file.
ListImageFiles ==
    /\ lpc \in {"ready", "returned"}
    /\ Len(built) < MaxBuilds
    /\ IF root = "file"
       THEN /\ lpc' = "raised"
            /\ UNCHANGED <<files, lindex, lpos>>
       ELSE /\ \E order \in Orders(Found) : files' = _list_image_files(order)
            /\ lindex' = <<>>
            /\ lpos' = 1
            /\ lpc' = "building"
    /\ UNCHANGED <<root, tree, recursive, built>>
    /\ UNCHANGED <<avars, cvars, prev>>

\* one turn of build_index's loop
BuildRecord ==
    /\ lpc = "building"
    /\ lpos <= Len(files)
    /\ LET img == files[lpos]
           rec == _canonicalize_annotations_for_image(img)
       IN  lindex' = IF BuildRaises(img)
                     THEN DictSet(lindex, RelPosix(img), Stub(img))
                     ELSE DictSet(lindex, rec.file_name, rec)
    /\ lpos' = lpos + 1
    /\ UNCHANGED <<root, tree, recursive, lpc, files, built>>
    /\ UNCHANGED <<avars, cvars, prev>>

\* return index
ReturnIndex ==
    /\ lpc = "building"
    /\ lpos > Len(files)
    /\ lpc' = "returned"
    /\ built' = Append(built, _index_fingerprint(lindex))
    /\ UNCHANGED <<root, tree, recursive, files, lindex, lpos>>
    /\ UNCHANGED <<avars, cvars, prev>>

\* a loader on any tree, its index built MaxBuilds times
InitLoader ==
    /\ runnerOf = [n \in Names |-> "ok"]
    /\ Idle
    /\ CanonIdle
    /\ root \in {"dir", "file", "missing"}
    /\ tree \in (IF root = "dir" THEN SUBSET PathUniverse ELSE {{}})
    /\ recursive \in BOOLEAN
    /\ lpc = "new"
    /\ files = <<>>
    /\ lindex = <<>>
    /\ lpos = 1
    /\ built = <<>>

NextLoader ==
    \/ Construct
    \/ ListImageFiles
    \/ BuildRecord
    \/ ReturnIndex

SpecLoader == InitLoader /\ [][NextLoader]_vars

(***************************************************************************)
(* data_io.py: the work of build_index on one image: the search for        *)
(* annotation candidates, the candidate loop and the final normalization   *)
(* of _canonicalize_annotations_for_image, and checks/bbox_sanity.py on    *)
(* the record.  Paths are relative to root as above; a file outside root   *)
(* is written with a leading "..".                                         *)
(*                                                                         *)
(* A float is the integer number of its 1/Unit parts, so that the values   *)
(* in use and their halves are exact.  A token of a file is a record that  *)
(* says whether float() accepts it, and the value it then gives.           *)
(***************************************************************************)
Unit == 200
F(n) == n * Unit
Hundredths(n) == n * (Unit \div 100)
Tok(v) == [num |-> TRUE, val |-> v]
Word == [num |-> FALSE, val |-> 0]
Toks(s) == [i \in 1..Len(s) |-> Tok(s[i])]

\* JSON values found under "bbox"
JList(s) == [t |-> "list", v |-> s]
JNull == [t |-> "null", v |-> <<>>]
JDict == [t |-> "dict", v |-> <<>>]
\* `if raw_bbox:`; the dict is a non-empty one
BoxTruthy(b) == b.t = "dict" \/ (b.t = "list" /\ b.v # <<>>)

COMMON_ANNOT_DIRS ==
    <<"labels", "label", "annotations", "annotation", "ann", "xmls", "jsons">>
GlobalNames == <<"annotations.json", "instances.json", "coco.json">>
SidecarExts == <<".txt", ".xml", ".json">>

\* img_path.stem and f"{stem}{ext}" on the names in use
Stem(name) ==
    CASE name \in {"a.jpg", "a.txt", "a.xml", "a.json"} -> "a"
      [] name = "long.jpg" -> "long"
      [] OTHER -> name
WithExt(stem, ext) ==
    CASE stem = "a" /\ ext = ".txt" -> "a.txt"
      [] stem = "a" /\ ext = ".xml" -> "a.xml"
      [] stem = "a" /\ ext = ".json" -> "a.json"
      [] OTHER -> "absent"
BaseName(p) == p[Len(p)]
\* p.parent; root lies at least three levels below the file system's root
Parent(p) ==
    IF p = <<>> \/ p[Len(p)] = ".." THEN p \o <<"..">>
    ELSE SubSeq(p, 1, Len(p) - 1)

\* the symbolic links of the tree and Path.resolve()
Link == (<<"images", "a.xml">> :> <<"labels", "a.xml">>)
resolve(p) == IF p \in DOMAIN Link THEN Link[p] ELSE p
\* is_file() and exists() follow a link
is_file(p) == p \in tree /\ resolve(p) \in tree
exists(p) == is_file(p) \/ IsDir(p)

\* ---- the files ----
CocoAnn(image_id, category_id, bbox) ==
    [image_id |-> image_id, category_id |-> category_id, bbox |-> bbox]
\* annotations.json at root: boxes of a.jpg, of another image and of an
\* image the file does not list
CocoRoot ==
    [kind |-> "coco",
     images |-> (1 :> <<"a.jpg">> @@ 2 :> <<"z.jpg">>),
     annotations |->
        <<CocoAnn(1, "7", JList(Toks(<<F(10), F(5), F(20), F(20)>>))),
          CocoAnn(2, "7", JList(Toks(<<F(1), F(1), F(2), F(2)>>))),
          CocoAnn(1, "8", JList(Toks(<<F(40), F(40), F(0) - F(5), F(0)>>))),
          CocoAnn(3, "9", JList(Toks(<<F(3), F(3), F(3), F(3)>>)))>>]
\* coco.json above root: the image listed by its path relative to root
CocoOutside ==
    [kind |-> "coco",
     images |-> (1 :> <<"images", "a.jpg">>),
     annotations |-> <<CocoAnn(1, "5", JList(Toks(<<F(2), F(2), F(6), F(6)>>)))>>]
\* a.json next to the image: boxes that are not four numbers
CocoSidecar ==
    [kind |-> "coco",
     images |-> (1 :> <<"a.jpg">>),
     annotations |->
        <<CocoAnn(1, "1", JList(Toks(<<F(1), F(2), F(3)>>))),
          CocoAnn(1, "2", JList(Toks(<<F(1), F(2), F(3), F(4), F(5)>>))),
          CocoAnn(1, "3", JList(<<>>)),
          CocoAnn(1, "4", JNull),
          CocoAnn(1, "5", JDict),
          CocoAnn(1, "6", JList(<<Tok(F(1)), Word, Tok(F(3)), Tok(F(4))>>)),
          CocoAnn(1, "7", JList(Toks(<<F(8), F(8), F(1), F(1)>>)))>>]
VocObject(name, bndbox) == [name |-> name, bndbox |-> bndbox]
\* labels/a.xml: an inverted box, a box of zero area, a box that is not
\* numeric, an object without bndbox
VocGood ==
    [kind |-> "voc",
     objects |->
        <<VocObject("cat", Some(Toks(<<F(50), F(60), F(10), F(20)>>))),
          VocObject("dog", Some(Toks(<<F(10), F(10), F(10), F(10)>>))),
          VocObject("cow", Some(<<Tok(F(1)), Tok(F(1)), Word, Tok(F(9))>>)),
          VocObject("owl", None)>>]
Line(cls, parts) == [cls |-> cls, parts |-> parts]
\* images/a.txt: a box, a blank line, a short line, a line that is not
\* numeric, a line with a sixth token
YoloSidecar ==
    [kind |-> "yolo",
     lines |->
        <<Line("0", Toks(<<Hundredths(50), Hundredths(50), Hundredths(40), Hundredths(40)>>)),
          Line("", <<>>),
          Line("1", Toks(<<Hundredths(50), Hundredths(50), Hundredths(40)>>)),
          Line("2", <<Tok(Hundredths(50)), Word, Tok(Hundredths(10)), Tok(Hundredths(10))>>),
          Line("3", Toks(<<Hundredths(20), Hundredths(30), Hundredths(20), Hundredths(0),
                           Hundredths(90)>>))>>]
\* labels/a.txt: a box of negative width
YoloFolder ==
    [kind |-> "yolo",
     lines |->
        <<Line("4", Toks(<<Hundredths(50), Hundredths(50), Hundredths(0) - Hundredths(20),
                           Hundredths(20)>>))>>]
Content(p) ==
    CASE resolve(p) = <<"annotations.json">> -> CocoRoot
      [] resolve(p) = <<"instances.json">> -> [kind |-> "malformed"]
      [] resolve(p) = <<"images", "coco.json">> -> [kind |-> "list"]
      [] resolve(p) = <<"..", "coco.json">> -> CocoOutside
      [] resolve(p) = <<"images", "a.txt">> -> YoloSidecar
      [] resolve(p) = <<"images", "a.json">> -> CocoSidecar
      [] resolve(p) = <<"labels", "a.txt">> -> YoloFolder
      [] resolve(p) = <<"labels", "a.xml">> -> VocGood
      [] resolve(p) = <<"annotations", "a.xml">> -> [kind |-> "malformed"]
      [] resolve(p) = <<"annotations", "a.txt">> -> [kind |-> "unreadable"]
      [] OTHER -> [kind |-> "other"]
AnnotUniverse ==
    {<<"annotations.json">>, <<"instances.json">>, <<"images", "coco.json">>,
     <<"..", "coco.json">>, <<"images", "a.txt">>, <<"images", "a.xml">>,
     <<"images", "a.json">>, <<"labels", "a.txt">>, <<"labels", "a.xml">>,
     <<"annotations", "a.xml">>, <<"annotations", "a.txt">>}
CanonImages == {<<"images", "a.jpg">>, <<"labels", "a.jpg">>, <<"images", "long.jpg">>}
\* another image of the same basename that the tree may hold
OtherImages == {<<"images", "sub", "a.jpg">>}
Sizes == {<<None, None>>, <<Some(100), Some(100)>>}

\* ---- _locate_annotation_folder ----
\* the first of COMMON_ANNOT_DIRS that is a directory of d
FirstAnnotDir(d) ==
    LET hits == SelectSeq(COMMON_ANNOT_DIRS, LAMBDA a : IsDir(d \o <<a>>))
    IN  IF hits = <<>> THEN None ELSE Some(d \o <<Head(hits)>>)
RECURSIVE _locate_annotation_folder_from(_, _)
_locate_annotation_folder_from(p, depth) ==
    IF depth >= 5 THEN None
    ELSE IF FirstAnnotDir(p) # None THEN FirstAnnotDir(p)
    ELSE IF FirstAnnotDir(Parent(p)) # None THEN FirstAnnotDir(Parent(p))
    ELSE IF p = <<>> THEN None
    ELSE _locate_annotation_folder_from(Parent(p), depth + 1)
_locate_annotation_folder(img) == _locate_annotation_folder_from(Parent(img), 0)

\* ---- _find_annotation_candidates ----
ExistingOf(paths) == SelectSeq(paths, LAMBDA q : exists(q))
GlobalAt(d) == ExistingOf([i \in 1..Len(GlobalNames) |-> d \o <<GlobalNames[i]>>])
\* the three levels climbed from the image's folder
NearGlobals(img) ==
    GlobalAt(Parent(img)) \o GlobalAt(Parent(Parent(img)))
        \o GlobalAt(Parent(Parent(Parent(img))))
Sidecars(img) ==
    ExistingOf([i \in 1..Len(SidecarExts) |->
                    Parent(img) \o <<WithExt(Stem(BaseName(img)), SidecarExts[i])>>])
FolderAndFiles(img) ==
    LET f == _locate_annotation_folder(img)
    IN  IF f = None THEN <<>>
        ELSE <<f[1]>> \o ExistingOf([i \in 1..Len(SidecarExts) |->
                    f[1] \o <<WithExt(Stem(BaseName(img)), SidecarExts[i])>>])
\* `candidates` before the deduplication
AllCandidates(img) ==
    GlobalAt(<<>>) \o NearGlobals(img) \o Sidecars(img) \o FolderAndFiles(img)
\* a list returned as it was collected
NoDedup(cs, seen) == cs
\* deduplicate preserving order, by str(c.resolve())
RECURSIVE Dedup(_, _)
Dedup(cs, seen) ==
    IF cs = <<>> THEN <<>>
    ELSE IF resolve(Head(cs)) \in seen THEN Dedup(Tail(cs), seen)
    ELSE <<Head(cs)>> \o Dedup(Tail(cs), seen \cup {resolve(Head(cs))})
_find_annotation_candidates(img) == Dedup(AllCandidates(img), {})

\* ---- the parsers; each gives the annotations the candidate adds to the
\* record and the exception that leaves the candidate's branch, if any ----
Yield(anns, err) == [anns |-> anns, err |-> err]
Ann(class, bbox, raw) == [class |-> class, bbox |-> bbox, raw |-> raw]

\* a box left as COCO wrote it
CocoBoxAsWritten(cocobox) ==
    IF cocobox.t # "list" \/ Len(cocobox.v) < 4 THEN <<0, 0, 0, 0>>
    ELSE <<cocobox.v[1].val, cocobox.v[2].val, cocobox.v[3].val, cocobox.v[4].val>>
\* _normalize_coco_bbox, for a value whose first four items float() accepts
_normalize_coco_bbox(cocobox) ==
    IF cocobox.t # "list" \/ Len(cocobox.v) < 4 THEN <<0, 0, 0, 0>>
    ELSE <<cocobox.v[1].val, cocobox.v[2].val,
           cocobox.v[1].val + cocobox.v[3].val, cocobox.v[2].val + cocobox.v[4].val>>
\* map(float, cocobox[:4]) raises
FloatRaises(cocobox) ==
    /\ cocobox.t = "list"
    /\ Len(cocobox.v) >= 4
    /\ \E i \in 1..4 : ~cocobox.v[i].num
\* labels_map[key] of _load_coco_json
LabelsFor(doc, key) ==
    SelectSeq(doc.annotations,
              LAMBDA a : a.image_id \in DOMAIN doc.images /\ doc.images[a.image_id] = key)
\* labels_map.get(img_path.name) or labels_map.get(rel_path) or []
AnnsForFile(doc, img) ==
    IF LabelsFor(doc, <<BaseName(img)>>) # <<>> THEN LabelsFor(doc, <<BaseName(img)>>)
    ELSE LabelsFor(doc, img)
\* the loop over anns_for_file; an exception ends it
RECURSIVE CocoLoop(_, _)
CocoLoop(entries, acc) ==
    IF entries = <<>> THEN Yield(acc, None)
    ELSE IF ~BoxTruthy(Head(entries).bbox) THEN CocoLoop(Tail(entries), acc)
    ELSE IF FloatRaises(Head(entries).bbox) THEN Yield(acc, Some("ValueError"))
    ELSE CocoLoop(Tail(entries),
                  Append(acc, Ann(Head(entries).category_id,
                                  _normalize_coco_bbox(Head(entries).bbox),
                                  Some(Head(entries)))))
\* the .json branch: _load_coco_json gives empty maps for a file that is not
\* JSON and raises AttributeError for JSON that is not an object
FromJson(c, img) ==
    CASE Content(c).kind = "coco" -> CocoLoop(AnnsForFile(Content(c), img), <<>>)
      [] Content(c).kind = "list" -> Yield(<<>>, Some("AttributeError"))
      [] OTHER -> Yield(<<>>, None)

\* the .xml branch: _load_voc_xml_file gives None for a file that does not
\* parse and skips an object whose bndbox is missing or not numeric
VocKept(o) == o.bndbox # None /\ \A i \in 1..4 : o.bndbox[1][i].num
VocAnn(o) ==
    Ann(o.name, <<o.bndbox[1][1].val, o.bndbox[1][2].val,
                  o.bndbox[1][3].val, o.bndbox[1][4].val>>, None)
FromXml(c) ==
    IF Content(c).kind # "voc" THEN Yield(<<>>, None)
    ELSE LET kept == SelectSeq(Content(c).objects, VocKept)
         IN  Yield([i \in 1..Len(kept) |-> VocAnn(kept[i])], None)

\* bw / 2.0
Half(a) == a \div 2
\* a box whose centre is scaled and whose extent is not
YoloBoxUnscaled(l, w, h) ==
    <<l.parts[1].val * w - Half(l.parts[3].val), l.parts[2].val * h - Half(l.parts[4].val),
      l.parts[1].val * w + Half(l.parts[3].val), l.parts[2].val * h + Half(l.parts[4].val)>>
\* normalized to absolute
YoloBox(l, w, h) ==
    <<(l.parts[1].val - Half(l.parts[3].val)) * w, (l.parts[2].val - Half(l.parts[4].val)) * h,
      (l.parts[1].val + Half(l.parts[3].val)) * w, (l.parts[2].val + Half(l.parts[4].val)) * h>>
\* a line that is converted: five tokens or more, the four after the class numeric
YoloKept(l) == Len(l.parts) >= 4 /\ \A i \in 1..4 : l.parts[i].num
\* a parser that takes an image of unknown size to be 1 x 1
YoloGuessing(txt, image_size) ==
    IF Content(txt).kind # "yolo" THEN None
    ELSE LET kept == SelectSeq(Content(txt).lines, YoloKept)
             w == IF image_size[1] = None THEN 1 ELSE image_size[1][1]
             h == IF image_size[2] = None THEN 1 ELSE image_size[2][1]
         IN  Some([i \in 1..Len(kept) |-> Ann(kept[i].cls, YoloBox(kept[i], w, h), None)])
\* _load_yolo_txt_file: None for a file that cannot be read, and None when
\* the arithmetic on a width of None raises TypeError
_load_yolo_txt_file(txt, image_size) ==
    IF Content(txt).kind # "yolo" THEN None
    ELSE LET kept == SelectSeq(Content(txt).lines, YoloKept)
         IN  IF kept # <<>> /\ image_size[1] = None THEN None
             ELSE Some([i \in 1..Len(kept) |->
                          Ann(kept[i].cls,
                              YoloBox(kept[i], image_size[1][1], image_size[2][1]), None)])
\* the .txt branch: `if anns: record["annotations"].extend(anns)`
FromTxt(txt, image_size) ==
    IF _load_yolo_txt_file(txt, image_size) = None THEN Yield(<<>>, None)
    ELSE Yield(_load_yolo_txt_file(txt, image_size)[1], None)

\* one turn of the candidate loop
ProcessCandidate(c, img, image_size) ==
    CASE is_file(c) /\ SuffixLower(BaseName(c)) = ".json" -> FromJson(c, img)
      [] is_file(c) /\ SuffixLower(BaseName(c)) = ".xml" -> FromXml(c)
      [] is_file(c) /\ SuffixLower(BaseName(c)) = ".txt" -> FromTxt(c, image_size)
      [] IsDir(c) /\ exists(c \o <<WithExt(Stem(BaseName(img)), ".txt")>>) ->
            FromTxt(c \o <<WithExt(Stem(BaseName(img)), ".txt")>>, image_size)
      [] OTHER -> Yield(<<>>, None)

\* a later source that takes the place of the earlier ones
Replace(anns, new) == IF new = <<>> THEN anns ELSE new
\* record["annotations"].append / .extend
Extend(anns, new) == anns \o new

\* a final pass that orders the corners
NormalizedSorted(ann) ==
    Ann(ann.class,
        <<Min(ann.bbox[1], ann.bbox[3]), Min(ann.bbox[2], ann.bbox[4]),
          IF ann.bbox[1] <= ann.bbox[3] THEN ann.bbox[3] ELSE ann.bbox[1],
          IF ann.bbox[2] <= ann.bbox[4] THEN ann.bbox[4] ELSE ann.bbox[2]>>, ann.raw)
\* a final pass that keeps the corner pair only
NormalizedCorner(ann) == Ann(ann.class, <<ann.bbox[1], ann.bbox[2]>>, ann.raw)
\* the final normalization of one annotation
Normalized(ann) ==
    Ann(ann.class, <<ann.bbox[1], ann.bbox[2], ann.bbox[3], ann.bbox[4]>>, ann.raw)
\* the final normalization step
FinalNormalization(anns) ==
    LET kept == SelectSeq(anns, LAMBDA a : a.bbox # <<>> /\ Len(a.bbox) = 4)
    IN  [i \in 1..Len(kept) |-> Normalized(kept[i])]

\* ---- checks/bbox_sanity.py on the index that holds the record ----
_as_floats(bbox) == IF bbox = <<>> \/ Len(bbox) # 4 THEN None ELSE Some(bbox)
Checked(anns) == {i \in 1..Len(anns) : anns[i].bbox # <<>> /\ _as_floats(anns[i].bbox) # None}
find_zero_area_boxes(anns) ==
    {i \in Checked(anns) : anns[i].bbox[3] - anns[i].bbox[1] = 0
                           \/ anns[i].bbox[4] - anns[i].bbox[2] = 0}
find_inverted_boxes(anns) ==
    {i \in Checked(anns) : anns[i].bbox[3] - anns[i].bbox[1] < 0
                           \/ anns[i].bbox[4] - anns[i].bbox[2] < 0}

\* ---- checks/completeness.py on the index that holds the record ----
\* `if meta and meta.get("error")`
HasMetaError(rec) == "error" \in Keys(rec.meta) /\ DictGet(rec.meta, "error") # ""
\* run_completeness_audit on the records of an index
run_completeness_audit(idx) ==
    [images_without_annotations |->
        {idx[i].file_name : i \in {j \in 1..Len(idx) : idx[j].annotations = <<>>}},
     parse_failures |-> {idx[i].file_name : i \in {j \in 1..Len(idx) : HasMetaError(idx[j])}},
     n_images |-> Len(idx)]

\* ---- the actions ----
\* build_index's turn for the image begins: the candidates are searched and
\* the record is set up; an exception gives the stub
FindCandidates ==
    /\ cpc = "start"
    /\ IF BuildRaises(RootPath \o img_path)
       THEN /\ record' = Stub(RootPath \o img_path)
            /\ cpc' = "stub"
            /\ UNCHANGED candidates
       ELSE /\ candidates' = _find_annotation_candidates(img_path)
            /\ record' = [file_name |-> img_path, abs_path |-> RootPath \o img_path,
                          width |-> size[1], height |-> size[2],
                          annotations |-> <<>>, meta |-> <<>>]
            /\ cpc' = "loop"
    /\ cpos' = 1
    /\ errors' = <<>>
    /\ UNCHANGED <<img_path, size, found>>
    /\ UNCHANGED <<avars, lvars, prev>>

\* a loop that an exception ends
CandidateAborts ==
    /\ cpc = "loop"
    /\ cpos <= Len(candidates)
    /\ LET out == ProcessCandidate(candidates[cpos], img_path, size)
       IN  /\ record' = [record EXCEPT !.annotations = Extend(@, out.anns)]
           /\ errors' = IF out.err = None THEN errors
                        ELSE Append(errors, <<candidates[cpos], out.err[1]>>)
           /\ cpos' = IF out.err = None THEN cpos + 1 ELSE Len(candidates) + 1
    /\ UNCHANGED <<img_path, size, cpc, candidates, found>>
    /\ UNCHANGED <<avars, lvars, prev>>

\* one turn of `for candidate in candidates`
Candidate ==
    /\ cpc = "loop"
    /\ cpos <= Len(candidates)
    /\ LET out == ProcessCandidate(candidates[cpos], img_path, size)
       IN  /\ record' = [record EXCEPT !.annotations = Extend(@, out.anns)]
           /\ errors' = IF out.err = None THEN errors
                        ELSE Append(errors, <<candidates[cpos], out.err[1]>>)
    /\ cpos' = cpos + 1
    /\ UNCHANGED <<img_path, size, cpc, candidates, found>>
    /\ UNCHANGED <<avars, lvars, prev>>

\* the final normalization, meta.errors, return record
FinishRecord ==
    /\ cpc = "loop"
    /\ cpos > Len(candidates)
    /\ record' = [record EXCEPT !.annotations = FinalNormalization(@),
                                !.meta = IF errors # <<>> THEN <<(<<"errors", errors>>)>>
                                         ELSE <<>>]
    /\ cpc' = "done"
    /\ UNCHANGED <<img_path, size, candidates, cpos, errors, found>>
    /\ UNCHANGED <<avars, lvars, prev>>

\* the completeness audit runs on the index
Completeness ==
    /\ cpc \in {"done", "stub"}
    /\ found' = [found EXCEPT !.completeness = run_completeness_audit(<<record>>)]
    /\ cpc' = "audited"
    /\ UNCHANGED <<img_path, size, candidates, cpos, record, errors>>
    /\ UNCHANGED <<avars, lvars, prev>>

\* the bbox sanity checks run on the index
BBoxSanity ==
    /\ cpc = "audited"
    /\ found' = [found EXCEPT !.zero = find_zero_area_boxes(record.annotations),
                              !.inverted = find_inverted_boxes(record.annotations)]
    /\ cpc' = "checked"
    /\ UNCHANGED <<img_path, size, candidates, cpos, record, errors>>
    /\ UNCHANGED <<avars, lvars, prev>>

\* one image of any tree in which _list_image_files finds it
InitCanon ==
    /\ runnerOf = [n \in Names |-> "ok"]
    /\ Idle
    /\ root = "dir"
    /\ recursive = TRUE
    /\ lpc = "idle"
    /\ files = <<>>
    /\ lindex = <<>>
    /\ lpos = 1
    /\ built = <<>>
    /\ img_path \in CanonImages
    /\ tree \in {T \cup O \cup {img_path} : T \in SUBSET AnnotUniverse, O \in SUBSET OtherImages}
    /\ img_path \in Found
    /\ size \in Sizes
    /\ cpc = "start"
    /\ candidates = <<>>
    /\ cpos = 1
    /\ record = [annotations |-> <<>>, meta |-> <<>>]
    /\ errors = <<>>
    /\ found = [zero |-> {}, inverted |-> {}, completeness |-> NoAudit]

NextCanon ==
    \/ FindCandidates
    \/ Candidate
    \/ FinishRecord
    \/ Completeness
    \/ BBoxSanity

SpecCanon == InitCanon /\ [][NextCanon]_vars

\* the calls of Spec under weak fairness: a step that can be taken is taken
\* (the interpreter, the pool's workers and the collect loop all keep running)
FairSpec == Init /\ [][Next]_vars /\ WF_vars(Next)

(***************************************************************************)
(* Properties.                                                             *)
(***************************************************************************)
AfterFeatures == pc \in {"summary", "pdf", "returned"}

\* C1: when build_index returns, the index holds exactly one record per
\* discovered image file, keyed by the file's path relative to root, so its
\* size is the number of discovered files; a file whose record build raised
\* has a stub record (width None, height None, no annotations).
C1_OneRecordPerFile ==
    lpc = "returned" =>
        /\ Len(lindex) = Len(files)
        /\ Cardinality(Keys(lindex)) = Len(files)
        /\ \A i \in 1..Len(files) :
              \E j \in 1..Len(lindex) :
                  /\ RootPath \o lindex[j][1] = files[i]
                  /\ lindex[j][2].file_name = lindex[j][1]
                  /\ lindex[j][2].abs_path = files[i]
                  /\ BuildRaises(files[i]) =>
                        /\ lindex[j][2].width = None
                        /\ lindex[j][2].height = None
                        /\ lindex[j][2].annotations = <<>>
C1_Witness ==
    /\ lpc = "returned"
    /\ Len(files) >= 2
    /\ \E i, j \in 1..Len(files) : BuildRaises(files[i]) /\ ~BuildRaises(files[j])
    /\ \E i, j \in 1..Len(files) : i # j /\ files[i][Len(files[i])] = files[j][Len(files[j])]

\* C2: in parallel and in sequential mode, a called runner that raises
\* (an Exception) leaves a result of status "error" in its own slot, every selected feature
\* has a slot, a called runner that succeeds has its own "ok" result there,
\* and run_audit never raises once a runner was called.
C2_FailureIsolated ==
    /\ AfterFeatures =>
          \A f \in Range(feature_items) :
              /\ f \in DOMAIN features_out
              /\ (f \in executed /\ runnerOf[f] = "raise") =>
                    features_out[f].status = "error"
              /\ (f \in executed /\ runnerOf[f] = "ok") =>
                    /\ features_out[f].status = "ok"
                    /\ features_out[f].feature = f
    /\ pc = "raised" => executed = {}
C2_Witness ==
    /\ pc = "returned"
    /\ ~cfg.features_parallel
    /\ executed = {"f1", "f2"}
    /\ runnerOf["f1"] = "raise"
    /\ runnerOf["f2"] = "ok"
    /\ result["features"]["f1"].status = "error"
    /\ result["features"]["f2"].status = "ok"

\* C3: in parallel mode a feature whose runner never returns ends with the
\* timeout record in its slot, and run_audit returns.
C3_TimeoutReturns ==
    \A f \in Names :
        (pc = "collect" /\ f \in Running /\ runnerOf[f] = "hang")
            ~> /\ pc = "returned"
               /\ f \in DOMAIN result["features"]
               /\ result["features"][f] = TimeoutResult

\* C4: with the cache enabled and writable, the runner of a feature is
\* called at most once per cache key over all calls of run_audit, whatever
\* it returns.
C4_RunnerCalledOnce ==
    \A k \in DOMAIN calls : Returns(runnerOf[k[1]]) => calls[k] <= 1

\* C5: no result of status "error" is ever written to the cache.
C5_NoErrorCached ==
    \A file \in DOMAIN cache : cache[file].status # "error"

\* C6: run_audit returns a result with all six keys, and raises only when
\* the index build raised.
C6_AlwaysWellShaped ==
    /\ pc = "returned" => DOMAIN result = ResultKeys
    /\ pc = "raised" => exc = Some("build_index")

\* C7: a constructed loader's build_index never raises.
C7_BuildIndexNeverRaises == lpc # "raised"

\* C8: the indexes returned by successive build_index calls on one tree
\* have equal fingerprints.
C8_FingerprintsEqual ==
    \A i, j \in 1..Len(built) : built[i] = built[j]
C8_Witness ==
    /\ Len(built) = 2
    /\ Len(files) >= 2
    /\ \E i \in 1..Len(files) : BuildRaises(files[i])

\* the fingerprinted part of two indexes is the same: the same number of
\* sampled entries, each with the same key, file_name, abs_path, width, height
SameSample(a, b) ==
    /\ Min(Len(a), max_items) = Min(Len(b), max_items)
    /\ \A i \in 1..Min(Len(a), max_items) :
          /\ a[i][1] = b[i][1]
          /\ a[i][2].file_name = b[i][2].file_name
          /\ a[i][2].abs_path = b[i][2].abs_path
          /\ a[i][2].width = b[i][2].width
          /\ a[i][2].height = b[i][2].height
\* the serialized config: None and the empty dict are both "{}"
SameSerializedCfg(c, d) ==
    (IF c.kind = "dict" THEN c.items ELSE {}) = (IF d.kind = "dict" THEN d.items ELSE {})

\* C9 as stated: a result in the features map was computed from this call's
\* own input, that is by this feature, from this config and from an index
\* with the same content.
C9_KeyCoversInput ==
    \A f \in DOMAIN features_out :
        features_out[f].status = "ok" =>
            /\ features_out[f].feature = f
            /\ SameSerializedCfg(features_out[f].input[2], FeatCfg(f))
            /\ features_out[f].input[1] = index
\* C9 amended: a result in the features map was computed by this feature,
\* from a config with the same serialization and from an index with the
\* same fingerprinted sample.
C9_KeyCoversSample ==
    \A f \in DOMAIN features_out :
        features_out[f].status = "ok" =>
            /\ features_out[f].feature = f
            /\ SameSerializedCfg(features_out[f].input[2], FeatCfg(f))
            /\ SameSample(features_out[f].input[1], index)
C9_Witness ==
    /\ runs = 2
    /\ \E f \in DOMAIN features_out :
          /\ f \notin executed
          /\ features_out[f].status = "ok"
          /\ features_out[f].input[1] # index

\* C10: the features that run, and the keys of the features map, are every
\* registered feature when features_to_run is null, and the registered
\* features named in it when it is a list.
Selected ==
    IF cfg.features_to_run.given
    THEN Range(cfg.features_to_run.names) \cap Names
    ELSE Names
C10_SelectsRequested ==
    /\ executed \subseteq Selected
    /\ AfterFeatures => DOMAIN features_out = Selected

\* C11: in parallel and in sequential mode, every runner is handed the index
\* as the loader built it, whatever the other runners did to theirs, and the
\* index of the audit result is the index the loader built.
C11_IndexIsolated ==
    /\ \A f \in DOMAIN features_out :
          features_out[f].status = "ok" => features_out[f].input[1] = IndexBase
    /\ "index" \in DOMAIN result => result["index"] = IndexBase

\* C12: a call made in one mode and the same call (same index, same config
\* but for features_parallel, same cache content at its start) made in the
\* other mode return the same features map and leave the same cache files;
\* and a call with a single selected feature submits nothing to the pool.
C12_ModesAgree ==
    /\ ( /\ pc = "returned"
         /\ prev # None
         /\ prev[1].cfg.features_parallel # cfg.features_parallel
         /\ prev[1].cache = <<>> )
       => /\ result["features"] = prev[1].features
          /\ cache = prev[1].cache
    /\ Len(feature_items) = 1 => DOMAIN futures = {}

(***************************************************************************)
(* Properties of the record of one image.                                  *)
(***************************************************************************)
IsStub == BuildRaises(RootPath \o img_path)
Canonicalized == cpc \in {"done", "checked"} /\ ~IsStub
RECURSIVE Concat(_)
Concat(ss) == IF ss = <<>> THEN <<>> ELSE Head(ss) \o Concat(Tail(ss))
\* what the first n candidates yield, one list per candidate
YieldsOf(n) == [i \in 1..n |-> ProcessCandidate(candidates[i], img_path, size).anns]
AnnsOfRecord == Range(record.annotations)

VocCandidates ==
    {c \in Range(candidates) :
        is_file(c) /\ SuffixLower(BaseName(c)) = ".xml" /\ Content(c).kind = "voc"}
\* C14: a VOC box is in the record with its four values in the order of
\* the file, inverted or not (50,60,10,20 stays 50,60,10,20); and on the
\* record find_inverted_boxes reports exactly the annotations with
\* x_max < x_min or y_max < y_min, find_zero_area_boxes exactly those of
\* zero width or zero height.
C14_OrderKept ==
    /\ Canonicalized =>
          \A c \in VocCandidates : \A k \in 1..Len(Content(c).objects) :
              LET o == Content(c).objects[k]
              IN  VocKept(o) =>
                    \E ann \in AnnsOfRecord :
                        /\ ann.class = o.name
                        /\ ann.bbox = <<o.bndbox[1][1].val, o.bndbox[1][2].val,
                                        o.bndbox[1][3].val, o.bndbox[1][4].val>>
    /\ cpc = "checked" =>
          /\ found.inverted =
                {i \in 1..Len(record.annotations) :
                    \/ record.annotations[i].bbox[3] < record.annotations[i].bbox[1]
                    \/ record.annotations[i].bbox[4] < record.annotations[i].bbox[2]}
          /\ found.zero =
                {i \in 1..Len(record.annotations) :
                    \/ record.annotations[i].bbox[3] = record.annotations[i].bbox[1]
                    \/ record.annotations[i].bbox[4] = record.annotations[i].bbox[2]}
C14_Witness ==
    /\ cpc = "checked"
    /\ \E i \in found.inverted :
          record.annotations[i].bbox = <<F(50), F(60), F(10), F(20)>>
    /\ \E i \in found.zero :
          record.annotations[i].bbox = <<F(10), F(10), F(10), F(10)>>
    /\ \E i \in 1..Len(record.annotations) : i \notin found.inverted \cup found.zero

\* a bbox value that is a list of exactly four numbers
FourNumbers(b) == b.t = "list" /\ Len(b.v) = 4 /\ \A i \in 1..4 : b.v[i].num
\* the COCO files among the candidates whose loop ends without an exception
CocoCandidates ==
    {c \in Range(candidates) :
        /\ is_file(c)
        /\ SuffixLower(BaseName(c)) = ".json"
        /\ Content(c).kind = "coco"
        /\ FromJson(c, img_path).err = None}
\* C15: an annotation of the record that comes from a COCO bbox [x, y, w, h]
\* has the bbox [x, y, x+w, y+h]; every such annotation of the image, in a
\* COCO file that is processed to its end, is in the record; and
\* [10,5,20,20] becomes [10,5,30,25].
C15_CocoConverted ==
    /\ Canonicalized =>
          /\ \A ann \in AnnsOfRecord :
                (ann.raw # None /\ FourNumbers(ann.raw[1].bbox)) =>
                    ann.bbox = <<ann.raw[1].bbox.v[1].val, ann.raw[1].bbox.v[2].val,
                                 ann.raw[1].bbox.v[1].val + ann.raw[1].bbox.v[3].val,
                                 ann.raw[1].bbox.v[2].val + ann.raw[1].bbox.v[4].val>>
          /\ \A c \in CocoCandidates :
                \A e \in Range(AnnsForFile(Content(c), img_path)) :
                    FourNumbers(e.bbox) => \E ann \in AnnsOfRecord : ann.raw = Some(e)
    /\ _normalize_coco_bbox(JList(Toks(<<F(10), F(5), F(20), F(20)>>)))
          = <<F(10), F(5), F(30), F(25)>>
C15_Witness ==
    /\ Canonicalized
    /\ \E ann \in AnnsOfRecord :
          /\ ann.raw # None
          /\ ann.raw[1].bbox = JList(Toks(<<F(10), F(5), F(20), F(20)>>))
          /\ ann.bbox = <<F(10), F(5), F(30), F(25)>>

\* the YOLO files the candidates lead to: a .txt candidate, or <stem>.txt in
\* a folder candidate
YoloFiles ==
    {c \in Range(candidates) : is_file(c) /\ SuffixLower(BaseName(c)) = ".txt"}
    \cup {c \o <<WithExt(Stem(BaseName(img_path)), ".txt")>> :
            c \in {d \in Range(candidates) :
                     IsDir(d) /\ exists(d \o <<WithExt(Stem(BaseName(img_path)), ".txt")>>)}}
\* C16: for an image of known size W x H, a line `class cx cy w h` of a
\* YOLO file is in the record with the bbox
\* [(cx-w/2)*W, (cy-h/2)*H, (cx+w/2)*W, (cy+h/2)*H]; and "0 0.5 0.5 0.4 0.4"
\* on 100 x 100 gives [30,30,70,70].
C16_YoloConverted ==
    /\ (Canonicalized /\ size[1] # None) =>
          \A t \in {y \in YoloFiles : Content(y).kind = "yolo"} :
              \A k \in 1..Len(Content(t).lines) :
                  LET l == Content(t).lines[k]
                      W == size[1][1]
                      H == size[2][1]
                  IN  YoloKept(l) =>
                        \E ann \in AnnsOfRecord :
                            /\ ann.class = l.cls
                            /\ ann.bbox =
                                 <<(l.parts[1].val - l.parts[3].val \div 2) * W,
                                   (l.parts[2].val - l.parts[4].val \div 2) * H,
                                   (l.parts[1].val + l.parts[3].val \div 2) * W,
                                   (l.parts[2].val + l.parts[4].val \div 2) * H>>
    /\ YoloBox(Line("0", Toks(<<Hundredths(50), Hundredths(50),
                                Hundredths(40), Hundredths(40)>>)), 100, 100)
          = <<F(30), F(30), F(70), F(70)>>
C16_Witness ==
    /\ Canonicalized
    /\ size = <<Some(100), Some(100)>>
    /\ \E ann \in AnnsOfRecord :
          ann.class = "0" /\ ann.bbox = <<F(30), F(30), F(70), F(70)>>
    /\ \E ann \in AnnsOfRecord :
          ann.class = "4" /\ ann.bbox = <<F(60), F(40), F(40), F(60)>>

\* parsing the candidate fails: JSON that does not parse or is not an
\* object, XML that does not parse, a YOLO file that cannot be read or
\* cannot be converted
ParseFails(c) ==
    /\ is_file(c)
    /\ \/ SuffixLower(BaseName(c)) = ".json" /\ Content(c).kind \in {"malformed", "list"}
       \/ SuffixLower(BaseName(c)) = ".xml" /\ Content(c).kind = "malformed"
       \/ SuffixLower(BaseName(c)) = ".txt" /\ _load_yolo_txt_file(c, size) = None
Reported(c) ==
    /\ record.meta # <<>>
    /\ \E j \in 1..Len(record.meta[1][2]) : record.meta[1][2][j][1] = c
\* C17: every candidate whose parsing fails has an entry in meta.errors of
\* the record.
C17_FailuresReported ==
    Canonicalized => \A c \in Range(candidates) : ParseFails(c) => Reported(c)

\* the place of a candidate in the search
Ancestors3(img) == {Parent(img), Parent(Parent(img)), Parent(Parent(Parent(img)))}
PriorityClass(c, img) ==
    IF BaseName(c) \in Range(GlobalNames) /\ Parent(c) \in Ancestors3(img) \cup {<<>>} THEN 1
    ELSE IF Parent(c) = Parent(img) THEN 2
    ELSE IF IsDir(c) THEN 3
    ELSE 4
FirstSeen(rp, all) == CHOOSE i \in 1..Len(all) :
    resolve(all[i]) = rp /\ \A j \in 1..(i - 1) : resolve(all[j]) # rp
\* C18: the candidates are in priority order (global JSON, same-stem files
\* next to the image, the annotation folder, its same-stem files), no two
\* of them resolve to one path, every path found is present, and each is
\* the first-seen entry of its path, in first-seen order.
C18_CandidatesOrdered ==
    (cpc \in {"loop", "done", "checked"} /\ ~IsStub) =>
        LET all == AllCandidates(img_path)
        IN  /\ \A i, j \in 1..Len(candidates) :
                  i < j => /\ resolve(candidates[i]) # resolve(candidates[j])
                           /\ PriorityClass(candidates[i], img_path)
                                <= PriorityClass(candidates[j], img_path)
                           /\ FirstSeen(resolve(candidates[i]), all)
                                < FirstSeen(resolve(candidates[j]), all)
            /\ {resolve(c) : c \in Range(candidates)} = {resolve(c) : c \in Range(all)}
            /\ \A i \in 1..Len(candidates) :
                  candidates[i] = all[FirstSeen(resolve(candidates[i]), all)]
C18_Witness ==
    /\ cpc = "loop"
    /\ <<"images", "a.xml">> \in Range(candidates)
    /\ <<"labels", "a.xml">> \in Range(AllCandidates(img_path))
    /\ <<"labels", "a.xml">> \notin Range(candidates)
    /\ Len(candidates) >= 4
    /\ Len(AllCandidates(img_path)) > Len(candidates) + 1

\* C19: every annotation of a record has exactly the keys class, bbox and
\* raw and a bbox of exactly four numbers; a stub has no annotations.
C19_AnnotationShape ==
    cpc \in {"done", "stub", "checked"} =>
        /\ \A ann \in AnnsOfRecord :
              /\ DOMAIN ann = {"class", "bbox", "raw"}
              /\ Len(ann.bbox) = 4
              /\ \A k \in 1..Len(ann.bbox) : ann.bbox[k] \in Int
        /\ IsStub => record.annotations = <<>>
C19_Witness ==
    /\ Canonicalized
    /\ \E a, b \in AnnsOfRecord : a.raw = None /\ b.raw # None
    /\ errors # <<>>

\* C20: no annotation of the record comes from a bbox that is not exactly
\* four numbers.
C20_NotFourDropped ==
    Canonicalized =>
        \A ann \in AnnsOfRecord : ann.raw # None => FourNumbers(ann.raw[1].bbox)

(***************************************************************************)
(* Properties of the record when a source cannot be used.                  *)
(***************************************************************************)
\* the candidates that lead to a YOLO file: a .txt file, or a folder
IsYoloCandidate(c) ==
    \/ is_file(c) /\ SuffixLower(BaseName(c)) = ".txt"
    \/ ~is_file(c) /\ IsDir(c)
\* the classes written in the YOLO files of the tree
YoloClasses ==
    UNION {{Content(t).lines[k].cls : k \in 1..Len(Content(t).lines)} :
             t \in {y \in YoloFiles : Content(y).kind = "yolo"}}
\* the candidates that are not YOLO sources, in order
OtherCandidates == SelectSeq(candidates, LAMBDA c : ~IsYoloCandidate(c))
OtherYields ==
    [i \in 1..Len(OtherCandidates) |->
        ProcessCandidate(OtherCandidates[i], img_path, size).anns]

\* C21: for an image whose width and height are None, no annotation of the
\* record comes from a YOLO file (none without a raw entry carries a class
\* of a YOLO line), no YOLO candidate leaves an exception
\* (none in meta.errors, and the record is built to its end), and the
\* record holds exactly what the other candidates yield.
C21_NoSizeNoYolo ==
    (size[1] = None /\ ~IsStub) =>
        /\ cpc \in {"loop", "done", "checked"} =>
              /\ \A ann \in AnnsOfRecord : ann.raw = None => ann.class \notin YoloClasses
              /\ \A j \in 1..Len(errors) : ~IsYoloCandidate(errors[j][1])
        /\ Canonicalized =>
              record.annotations = FinalNormalization(Concat(OtherYields))
        /\ cpc # "stub"
C21_Witness ==
    /\ Canonicalized
    /\ size = <<None, None>>
    /\ record.annotations # <<>>
    /\ \E c \in Range(candidates) :
          /\ is_file(c) /\ SuffixLower(BaseName(c)) = ".txt"
          /\ Content(c).kind = "yolo"
          /\ \E k \in 1..Len(Content(c).lines) : YoloKept(Content(c).lines[k])
    /\ \E c \in Range(candidates) : ~is_file(c) /\ IsDir(c)

\* the candidates among the first n whose processing raises, in order
Raising(n) ==
    SelectSeq([i \in 1..n |-> i],
              LAMBDA i : ProcessCandidate(candidates[i], img_path, size).err # None)
\* C22: while the loop runs and when the record is returned, the errors
\* list has exactly one entry for each candidate processed so far whose
\* processing raised, named after it and in candidate order; the loop goes
\* on to the last candidate; and what every other candidate yields, before
\* or after the one that raised, is in the record.
C22_ExceptionCaught ==
    /\ (cpc = "loop" /\ ~IsStub) =>
          /\ Len(errors) = Len(Raising(cpos - 1))
          /\ \A k \in 1..Len(errors) :
                errors[k] = <<candidates[Raising(cpos - 1)[k]],
                              ProcessCandidate(candidates[Raising(cpos - 1)[k]],
                                               img_path, size).err[1]>>
          /\ \A i \in 1..(cpos - 1) :
                \A a \in Range(YieldsOf(cpos - 1)[i]) : a \in AnnsOfRecord
    /\ Canonicalized =>
          /\ cpos = Len(candidates) + 1
          /\ Len(errors) = Len(Raising(Len(candidates)))
          /\ (errors # <<>>) => record.meta = <<(<<"errors", errors>>)>>
          /\ \A i \in 1..Len(candidates) :
                \A a \in Range(YieldsOf(Len(candidates))[i]) :
                    Normalized(a) \in AnnsOfRecord
C22_Witness ==
    /\ Canonicalized
    /\ \E i, j, k \in 1..Len(candidates) :
          /\ i < j /\ j < k
          /\ YieldsOf(k)[i] # <<>>
          /\ ProcessCandidate(candidates[j], img_path, size).err # None
          /\ YieldsOf(k)[k] # <<>>

(***************************************************************************)
(* Properties of the cache, the pool and the features map.                 *)
(***************************************************************************)
\* what executing feature f stores in the features map, in the call's mode
Executed(f) ==
    IF use_parallel THEN _feature_worker(f, IndexBase, FeatCfg(f))
    ELSE CASE runnerOf[f] = "norunner" -> SeqNoRunner
           [] runnerOf[f] = "raise" -> SeqFailed
           [] OTHER -> _sanitize_for_json(RunnerOut(f, IndexBase, FeatCfg(f)))
\* two results that agree in all but the input they echo
SameOutcome(a, b) ==
    /\ a.kind = b.kind
    /\ a.status = b.status
    /\ a.detail = b.detail
    /\ a.feature = b.feature
    /\ a.np = b.np
\* C23: no failure of the cache leaves run_audit or reaches the features
\* map: in a call that finds no usable cache entry (none exists, or the
\* load fails) every selected feature that has a runner is executed, and
\* its entry is the result of that execution whether or not the write to
\* the cache fails.
C23_CacheFailuresHidden ==
    /\ pc = "raised" => exc = Some("build_index")
    /\ (AfterFeatures /\ cache_enabled) =>
          \A f \in Range(feature_items) :
              /\ f \in DOMAIN features_out
              /\ SameOutcome(features_out[f], Executed(f))
              /\ runnerOf[f] # "norunner" => f \in executed

\* the cache holds a usable entry for feature f of this call
Served(f) == cache_enabled /\ IsHit(_cache_load(cache_dir, CacheFile(f, KeyOf(f))))
\* C24: in parallel mode at most min(max_workers, number of selected
\* features) runners execute at the same time, and while the features are
\* dispatched a feature that the cache serves has its stored result in the
\* features map and no task in the pool (a feature the cache does not serve
\* has a task).
C24_PoolBounded ==
    /\ Cardinality(Running)
          <= Min(IF cfg.max_workers >= 1 THEN cfg.max_workers ELSE 1, Len(feature_items))
    /\ pc = "submit" =>
          \A i \in 1..(pos - 1) :
              LET f == feature_items[i]
              IN  IF Served(f)
                  THEN /\ f \notin DOMAIN futures
                       /\ f \notin Range(queue)
                       /\ features_out[f] = cache[CacheFile(f, KeyOf(f))]
                  ELSE f \in DOMAIN futures
    /\ \A f \in DOMAIN futures : f \in Range(feature_items) /\ use_parallel
C24_Witness ==
    /\ pc = "collect"
    /\ prev # None
    /\ cfg.max_workers = 1
    /\ Len(feature_items) = 2
    /\ "f1" \in DOMAIN features_out /\ "f1" \notin DOMAIN futures
    /\ "f2" \in Running

\* C25: in parallel mode, whatever the order in which the tasks finish and
\* are collected, an entry of the features map is the result of the feature
\* it is named after, and when the features step is over the map holds
\* exactly that entry for every selected feature: the map is a function of
\* the runners, the index and the config alone.
C25_OrderIndependent ==
    (use_parallel /\ pc \in {"collect", "summary", "pdf", "returned"}
        /\ feature_items # <<>>) =>
        /\ \A f \in DOMAIN features_out :
              features_out[f] = _feature_worker(f, IndexBase, FeatCfg(f))
        /\ AfterFeatures =>
              /\ DOMAIN features_out = Range(feature_items)
              /\ result["features"] = features_out
C25_Witness ==
    /\ use_parallel
    /\ pc = "collect"
    /\ runnerOf["f1"] # runnerOf["f2"]
    /\ DOMAIN futures = {"f1", "f2"}
    /\ futures["f2"].state = "collected"
    /\ futures["f1"].state = "done"
    /\ DOMAIN features_out = {"f2"}

(***************************************************************************)
(* Properties of the completeness audit.                                   *)
(***************************************************************************)
\* C26: after the audit of the index that holds the record, n_images is
\* the number of records, and the record is in parse_failures whenever its
\* meta holds a parse error: the stub's meta.error or the candidate loop's
\* meta.errors.
C26_ParseFailuresListed ==
    cpc \in {"audited", "checked"} =>
        /\ found.completeness.n_images = 1
        /\ record.meta # <<>> => record.file_name \in found.completeness.parse_failures

(***************************************************************************)
(* Properties of the features map that run_audit returns.                  *)
(***************************************************************************)
\* C27: when run_audit returns, in either mode, the keys of the features
\* map are exactly the selected features (the registered ones, restricted
\* to features_to_run when it is given), each with one entry, whatever
\* became of it: served from the cache, executed, failed or without runner.
C27_KeysAreSelected ==
    pc = "returned" =>
        /\ DOMAIN result["features"] = Selected
        /\ \A f \in Selected :
              result["features"][f].status \in {"ok", "error", "no-runner", ""}

(***************************************************************************)
(* Properties of the sources of a record.                                  *)
(***************************************************************************)
\* a path that lies inside the root directory
InsideRoot(p) == p # <<>> /\ p[1] # ".."
\* C28: every candidate found for an image under the root, and the path it
\* resolves to, lies inside the root, and no annotation of the record was
\* read from a file outside the root.
C28_CandidatesInsideRoot ==
    (cpc \in {"loop", "done", "audited", "checked"} /\ ~IsStub) =>
        /\ \A c \in Range(candidates) : InsideRoot(c) /\ InsideRoot(resolve(c))
        /\ \A ann \in AnnsOfRecord :
              ann.raw # None => ann.raw[1] \notin Range(CocoOutside.annotations)

\* the annotation files of the tree
Sources == tree \cap AnnotUniverse
\* C29: for an image of known size whose only annotation source is the YOLO
\* file <stem>.txt in a sibling label folder, the folder and the file are
\* both candidates and the record has as many annotations as the file has
\* valid lines.
C29_SourceOnce ==
    ( /\ Canonicalized
      /\ size[1] # None
      /\ Sources = {<<"labels", "a.txt">>}
      /\ img_path = <<"images", "a.jpg">> ) =>
        /\ candidates = << <<"labels">>, <<"labels", "a.txt">> >>
        /\ Len(record.annotations) = Len(SelectSeq(YoloFolder.lines, YoloKept))

\* the annotations build_index gives the record of another image of the
\* tree: its own candidates, processed in order, then normalized
RecordOf(img) ==
    LET cs == _find_annotation_candidates(img)
    IN  FinalNormalization(
            Concat([i \in 1..Len(cs) |-> ProcessCandidate(cs[i], img, size).anns]))
\* the entries of the global COCO files that a list of annotations holds
GlobalEntries(anns) ==
    {anns[i].raw[1] : i \in {j \in 1..Len(anns) : anns[j].raw # None}}
        \cap Range(CocoRoot.annotations)
\* C30: no entry of the global COCO file is in the record of the image and
\* also in the record of another discovered image of the same basename in
\* another directory.
C30_EntryInOneRecord ==
    Canonicalized =>
        \A other \in Found \ {img_path} :
            (BaseName(other) = BaseName(img_path) /\ ~BuildRaises(RootPath \o other)) =>
                GlobalEntries(record.annotations) \cap GlobalEntries(RecordOf(other)) = {}

====
